---- MODULE Spec2Model ----
(***************************************************************************)
(* Model of the Organimo storefront backend (src/main.py): the startup     *)
(* seed routine and the five request handlers, over an external document   *)
(* store that may be missing, uninitialised, failing or working.           *)
(*                                                                         *)
(* Numbers that are floats in the program are fixed-point integers in      *)
(* thousandths here (29.99 is 29990); a product of two of them is in       *)
(* millionths.  Python dicts are functions whose DOMAIN is the set of keys *)
(* present, None is the empty sequence <<>> and a present optional value v *)
(* is <<v>>.                                                               *)
(***************************************************************************)
EXTENDS Integers, Sequences, FiniteSets, TLC

VARIABLES
    store,       \* the documents of db["product"], in insertion order
    cond,        \* condition of the store as the process sees it
    pc,          \* per process: where it is in its life cycle
    seedResult,  \* per process: the path by which its seed routine ended
    last         \* the request most recently served and its response

vars == <<store, cond, pc, seedResult, last>>

----------------------------------------------------------------------------
(* Bounds *)

MaxStore == 4      \* external inserts stop at this many documents
NProcs == 2        \* processes sharing the store in SpecConc
MaxItems == 2      \* line items per checkout request in SpecCheckout
MaxColls == 12     \* collections the database may expose

Procs == 1..NProcs
MainProc == 1

----------------------------------------------------------------------------
(* Data *)

\* the literal documents of seed_products_if_needed
SampleProducts ==
    << [ title |-> "Organimo Sea Moss Gel",
         slug |-> "sea-moss-gel",
         description |-> "Premium wildcrafted Sea Moss gel infused with Bladderwrack for a daily wellness boost.",
         price |-> 29990,
         sku |-> "ORG-SM-001",
         category |-> "gel",
         image |-> "https://images.unsplash.com/photo-1604909052743-89d4387d9453?q=80&w=1200&auto=format&fit=crop",
         badges |-> <<"Vegan", "Non-GMO", "Gluten-Free", "No Preservatives", "Harvested in Canada">>,
         rating |-> 4900,
         reviews |-> 312000 ],
       [ title |-> "Organimo Sea Moss Capsules",
         slug |-> "sea-moss-capsules",
         description |-> "Convenient daily capsules with Sea Moss + Bladderwrack for energy and immune support.",
         price |-> 24990,
         sku |-> "ORG-SM-002",
         category |-> "capsules",
         image |-> "https://images.unsplash.com/photo-1590686576338-71b9362b61fe?q=80&w=1200&auto=format&fit=crop",
         badges |-> <<"Vegan", "Non-GMO", "No Preservatives">>,
         rating |-> 4800,
         reviews |-> 198000 ],
       [ title |-> "Organimo Sea Moss + Bladderwrack Powder",
         slug |-> "sea-moss-powder",
         description |-> "Fine powder blend perfect for smoothies and recipes.",
         price |-> 27000,
         sku |-> "ORG-SM-003",
         category |-> "powder",
         image |-> "https://images.unsplash.com/photo-1517433456452-f9633a875f6f?q=80&w=1200&auto=format&fit=crop",
         badges |-> <<"Vegan", "Gluten-Free">>,
         rating |-> 4700,
         reviews |-> 154000 ] >>

\* the literal ProductModel of the fallback branches of list_products and
\* get_product (the two literals are the same)
FallbackProduct ==
    [ title |-> "Organimo Sea Moss Gel",
      slug |-> "sea-moss-gel",
      description |-> "Premium wildcrafted Sea Moss gel infused with Bladderwrack for a daily wellness boost.",
      price |-> 29990,
      sku |-> "ORG-SM-001",
      category |-> "gel",
      image |-> "https://images.unsplash.com/photo-1604909052743-89d4387d9453?q=80&w=1200&auto=format&fit=crop",
      badges |-> <<"Vegan", "Non-GMO", "Gluten-Free", "No Preservatives", "Harvested in Canada">>,
      rating |-> 4900,
      reviews |-> 312 ]

\* documents that out-of-band administration may put in the collection:
\* a second product of category "gel", a document without a title, a
\* document with only the two required fields, and a category that differs
\* from "gel" in case only
ExternalDocs ==
    { [ title |-> "Organimo Sea Moss Gummies",
        slug |-> "sea-moss-gummies",
        description |-> "Chewable gummies.",
        price |-> 19500,
        sku |-> "ORG-SM-004",
        category |-> "gel",
        image |-> "https://example.org/gummies.jpg",
        badges |-> <<"Vegan">>,
        rating |-> 4500,
        reviews |-> 12500 ],
      [ slug |-> "no-title", category |-> "gel", price |-> 1000 ],
      [ title |-> "Bare", slug |-> "bare" ],
      [ title |-> "Sea Moss Gel XL", slug |-> "sea-moss-gel-xl", category |-> "Gel" ] }

\* what `from database import db` and the first use of db can meet:
\*   "missing"  the import raises ImportError
\*   "broken"   the import raises another exception
\*   "none"     db is None
\*   "nobool"   db is a handle whose truth test raises; queries work
\*   "raises"   db is a handle, every query on it raises
\*   "ok"       db is a handle, queries work
Conds == {"missing", "broken", "none", "nobool", "raises", "ok"}

\* query-string values of ?category= : absent, empty, and some names
Categories == { <<>>, <<"">>, <<"gel">>, <<"Gel">>, <<"powder">>, <<"tea">> }

\* path values of {slug}
Slugs == { "sea-moss-gel", "sea-moss-capsules", "sea-moss-gummies",
           "no-title", "bare", "does-not-exist" }

NoRequest == [op |-> "none"]

----------------------------------------------------------------------------
(* The store interface the program uses *)

Range(s) == { s[i] : i \in 1..Len(s) }

\* dict.get(k, d)
Get(p, k, d) == IF k \in DOMAIN p THEN p[k] ELSE d

\* Python truth of an Optional[str]: None and "" are false
Truthy(opt) == opt # <<>> /\ opt[1] # ""

\* a document matches a filter dict when each key of the filter is present
\* in it with an equal value; the empty filter matches every document
Matches(p, query) == \A k \in DOMAIN query : k \in DOMAIN p /\ p[k] = query[k]

\* col.find(query): the matching documents in store order
Find(docs, query) == SelectSeq(docs, LAMBDA p : Matches(p, query))

\* col.find_one(query): the first matching document, or None
FindOne(docs, query) ==
    LET hits == Find(docs, query)
    IN  IF hits = <<>> THEN <<>> ELSE << hits[1] >>

\* col.count_documents({})
CountDocuments(docs) == Len(docs)

\* col.insert_many(new)
InsertMany(docs, new) == docs \o new

\* the handle the routes compute: `db["product"] if db else None` under
\* `except Exception: col = None`
HandleObtained(c) == c \in {"raises", "ok"}

\* the handle queries answer (otherwise they raise)
QueriesWork(c) == c \in {"nobool", "ok"}

----------------------------------------------------------------------------
(* ProductModel *)

\* ProductModel(...) raises a validation error when title or slug is None
Validates(p) == "title" \in DOMAIN p /\ "slug" \in DOMAIN p

\* int(x) of a non-negative number: truncation
IntOf(x) == x \div 1000

\* the keyword arguments list_products and get_product build from a document
ToProductModel(p) ==
    [ title |-> p.title,
      slug |-> p.slug,
      description |-> Get(p, "description", ""),
      price |-> Get(p, "price", 0),
      sku |-> Get(p, "sku", ""),
      category |-> Get(p, "category", ""),
      image |-> Get(p, "image", ""),
      badges |-> Get(p, "badges", <<>>),
      rating |-> Get(p, "rating", 5000),
      reviews |-> IntOf(Get(p, "reviews", 0)) ]

Unhandled == [status |-> 500]
NotFound == [status |-> 404, detail |-> "Product not found"]
Ok(body) == [status |-> 200, body |-> body]

----------------------------------------------------------------------------
(* State *)

Init ==
    /\ store = <<>>
    /\ cond \in Conds
    /\ pc = [p \in Procs |-> "stopped"]
    /\ seedResult = [p \in Procs |-> "none"]
    /\ last = NoRequest

\* no response is waiting to leave
Idle == last = NoRequest

\* a process is up and free to take a request
Serving == Idle /\ \E p \in Procs : pc[p] = "serving"

\* the response leaves the process (after a start: the seed routine's
\* record is dropped)
Respond ==
    /\ ~Idle
    /\ last' = NoRequest
    /\ UNCHANGED <<store, cond, pc, seedResult>>

----------------------------------------------------------------------------
(* seed_products_if_needed, run by the module body at every process start *)

\* the seed routine without its emptiness check
SeedNeededAlways(docs) == TRUE

\* `if col.count_documents({}) == 0`
SeedNeeded(docs) == CountDocuments(docs) = 0

\* the whole routine: the collection it leaves and the path it took.  Every
\* exception ends in the `except Exception: pass` of the routine.
SeedProductsIfNeeded(docs, c) ==
    IF c \in {"missing", "broken"} THEN [docs |-> docs, path |-> "import_failed"]
    ELSE IF c = "none" THEN [docs |-> docs, path |-> "no_db"]
    ELSE IF ~QueriesWork(c) THEN [docs |-> docs, path |-> "query_failed"]
    ELSE IF SeedNeeded(docs)
         THEN [docs |-> InsertMany(docs, SampleProducts), path |-> "seeded"]
         ELSE [docs |-> docs, path |-> "skipped"]

\* a process starts: the module body runs the seed routine, then serves
Start(p) ==
    /\ Idle
    /\ pc[p] = "stopped"
    /\ LET r == SeedProductsIfNeeded(store, cond)
       IN  /\ store' = r.docs
           /\ seedResult' = [seedResult EXCEPT ![p] = r.path]
    /\ pc' = [pc EXCEPT ![p] = "serving"]
    /\ last' = [op |-> "seed", before |-> store]
    /\ UNCHANGED cond

\* a process starts and the store fails while insert_many runs: any prefix
\* of the batch may have been written when the exception arrives
StartInsertFails(p) ==
    /\ Idle
    /\ pc[p] = "stopped"
    /\ QueriesWork(cond)
    /\ SeedNeeded(store)
    /\ \E k \in 0..Len(SampleProducts) :
           store' = InsertMany(store, SubSeq(SampleProducts, 1, k))
    /\ cond' = "raises"
    /\ seedResult' = [seedResult EXCEPT ![p] = "insert_failed"]
    /\ pc' = [pc EXCEPT ![p] = "serving"]
    /\ last' = [op |-> "seed", before |-> store]

\* The same routine for processes that start side by side: importing db,
\* counting and inserting are separate steps, and another process or the
\* environment may move between them.

\* `from database import db`, `if db is None: return`, `col = db["product"]`
ProcStart(p) ==
    /\ Idle
    /\ pc[p] = "stopped"
    /\ IF cond \in {"missing", "broken"}
       THEN /\ pc' = [pc EXCEPT ![p] = "serving"]
            /\ seedResult' = [seedResult EXCEPT ![p] = "import_failed"]
       ELSE IF cond = "none"
       THEN /\ pc' = [pc EXCEPT ![p] = "serving"]
            /\ seedResult' = [seedResult EXCEPT ![p] = "no_db"]
       ELSE /\ pc' = [pc EXCEPT ![p] = "seed_count"]
            /\ UNCHANGED seedResult
    /\ UNCHANGED <<store, cond, last>>

\* `if col.count_documents({}) == 0`
SeedCount(p) ==
    /\ Idle
    /\ pc[p] = "seed_count"
    /\ IF ~QueriesWork(cond)
       THEN /\ pc' = [pc EXCEPT ![p] = "serving"]
            /\ seedResult' = [seedResult EXCEPT ![p] = "query_failed"]
       ELSE IF SeedNeeded(store)
       THEN /\ pc' = [pc EXCEPT ![p] = "seed_insert"]
            /\ UNCHANGED seedResult
       ELSE /\ pc' = [pc EXCEPT ![p] = "serving"]
            /\ seedResult' = [seedResult EXCEPT ![p] = "skipped"]
    /\ UNCHANGED <<store, cond, last>>

\* `col.insert_many(sample_products)`
SeedInsert(p) ==
    /\ Idle
    /\ pc[p] = "seed_insert"
    /\ IF QueriesWork(cond)
       THEN /\ store' = InsertMany(store, SampleProducts)
            /\ seedResult' = [seedResult EXCEPT ![p] = "seeded"]
       ELSE /\ \E k \in 0..Len(SampleProducts) :
                   store' = InsertMany(store, SubSeq(SampleProducts, 1, k))
            /\ seedResult' = [seedResult EXCEPT ![p] = "insert_failed"]
    /\ pc' = [pc EXCEPT ![p] = "serving"]
    /\ UNCHANGED <<cond, last>>

\* the process ends; a later Start is a restart
Stop(p) ==
    /\ Idle
    /\ pc[p] = "serving"
    /\ pc' = [pc EXCEPT ![p] = "stopped"]
    /\ seedResult' = [seedResult EXCEPT ![p] = "none"]
    /\ UNCHANGED <<store, cond, last>>

----------------------------------------------------------------------------
(* The environment of the program, which moves between requests *)

\* out-of-band administration adds a document
ExternalInsert ==
    /\ Idle
    /\ Len(store) < MaxStore
    /\ \E d \in ExternalDocs \ Range(store) : store' = Append(store, d)
    /\ UNCHANGED <<cond, pc, seedResult, last>>

\* out-of-band administration deletes a document
ExternalDelete ==
    /\ Idle
    /\ \E i \in 1..Len(store) :
           store' = SubSeq(store, 1, i - 1) \o SubSeq(store, i + 1, Len(store))
    /\ UNCHANGED <<cond, pc, seedResult, last>>

\* the store goes away, comes back, or is reconfigured
SetCond ==
    /\ Idle
    /\ \E c \in Conds \ {cond} : cond' = c
    /\ UNCHANGED <<store, pc, seedResult, last>>

----------------------------------------------------------------------------
(* GET / *)

ReadRoot ==
    /\ Serving
    /\ last' = [op |-> "root", resp |-> Ok([message |-> "Organimo API is running"])]
    /\ UNCHANGED <<store, cond, pc, seedResult>>

----------------------------------------------------------------------------
(* GET /api/products *)

\* `query = {"category": category} if category else {}`
ListQuery(category) ==
    IF Truthy(category) THEN [category |-> category[1]] ELSE <<>>

\* `[p for p in fallback if (not category or p.category == category)]`
FallbackList(category) ==
    SelectSeq(<<FallbackProduct>>,
              LAMBDA p : ~Truthy(category) \/ p.category = category[1])

\* the response of list_products and the branch that produced it
ListProductsResp(docs, c, category) ==
    IF HandleObtained(c)
    THEN IF ~QueriesWork(c)
         THEN [branch |-> "store", resp |-> Unhandled]
         ELSE LET hits == Find(docs, ListQuery(category))
              IN  IF \E i \in 1..Len(hits) : ~Validates(hits[i])
                  THEN [branch |-> "store", resp |-> Unhandled]
                  ELSE [branch |-> "store",
                        resp |-> Ok([i \in 1..Len(hits) |-> ToProductModel(hits[i])])]
    ELSE [branch |-> "fallback", resp |-> Ok(FallbackList(category))]

ListProducts ==
    /\ Serving
    /\ \E category \in Categories :
           LET r == ListProductsResp(store, cond, category)
           IN  last' = [op |-> "list", category |-> category,
                        branch |-> r.branch, resp |-> r.resp]
    /\ UNCHANGED <<store, cond, pc, seedResult>>

----------------------------------------------------------------------------
(* GET /api/products/{slug} *)

\* the response of get_product and the branch that produced it
GetProductResp(docs, c, slug) ==
    IF HandleObtained(c)
    THEN IF ~QueriesWork(c)
         THEN [branch |-> "store", resp |-> Unhandled]
         ELSE LET p == FindOne(docs, [slug |-> slug])
              IN  IF p = <<>>
                  THEN [branch |-> "store", resp |-> NotFound]
                  ELSE IF ~Validates(p[1])
                  THEN [branch |-> "store", resp |-> Unhandled]
                  ELSE [branch |-> "store", resp |-> Ok(ToProductModel(p[1]))]
    ELSE IF slug = "sea-moss-gel"
         THEN [branch |-> "fallback", resp |-> Ok(FallbackProduct)]
         ELSE [branch |-> "fallback", resp |-> NotFound]

\* a lookup that removes the document it found (find_one_and_delete)
GetProductAndDelete ==
    /\ Serving
    /\ \E slug \in Slugs :
           LET r == GetProductResp(store, cond, slug)
           IN  /\ last' = [op |-> "get", slug |-> slug,
                           branch |-> r.branch, resp |-> r.resp]
               /\ store' = SelectSeq(store, LAMBDA p : ~Matches(p, [slug |-> slug]))
    /\ UNCHANGED <<cond, pc, seedResult>>

GetProduct ==
    /\ Serving
    /\ \E slug \in Slugs :
           LET r == GetProductResp(store, cond, slug)
           IN  last' = [op |-> "get", slug |-> slug,
                        branch |-> r.branch, resp |-> r.resp]
    /\ UNCHANGED <<store, cond, pc, seedResult>>

----------------------------------------------------------------------------
(* POST /api/checkout *)

\* JSON values a line item may carry under "qty" or "price": a finite
\* number (in thousandths), a value float() turns into inf or nan (such as
\* "nan", "inf" or 1e999), or a value float() rejects (such as "abc", null
\* or a list)
Num(v) == [kind |-> "num", v |-> v]
NonFinite == [kind |-> "nonfinite"]
Bad == [kind |-> "bad"]

QtyValues == { Bad, NonFinite, Num(2000), Num(1500) }
PriceValues == { Bad, NonFinite, Num(5500), Num(10000), Num(1235) }

\* the line items: each key present or not
LineItems ==
    { <<>> }
    \cup { [qty |-> q] : q \in QtyValues }
    \cup { [price |-> v] : v \in PriceValues }
    \cup { [qty |-> q, price |-> v] : q \in QtyValues, v \in PriceValues }

LineItemSeqs(n) == UNION { [1..k -> LineItems] : k \in 0..n }

\* float(x) raises on a value it cannot read
FloatRaises(x) == x.kind = "bad"

\* a float: finite with a value in millionths, or inf/nan
Finite(v) == [fin |-> TRUE, v |-> v]
NotFinite == [fin |-> FALSE]

\* qty * price of two values float() accepted
Times(q, v) ==
    IF q.kind = "num" /\ v.kind = "num" THEN Finite(q.v * v.v) ELSE NotFinite

\* total += x
Plus(total, x) ==
    IF total.fin /\ x.fin THEN Finite(total.v + x.v) ELSE NotFinite

\* the loop body with the quantity defaulting to 0 instead of 1
CheckoutStepQtyZero(total, item) ==
    LET qty == Get(item, "qty", Num(0))
        price == Get(item, "price", Num(0))
    IN  IF FloatRaises(qty) THEN total
        ELSE IF FloatRaises(price) THEN total
        ELSE Plus(total, Times(qty, price))

\* the body of the loop for one item: the first float() that raises ends
\* the iteration in `except Exception: continue` with total as it was
CheckoutStep(total, item) ==
    LET qty == Get(item, "qty", Num(1000))
        price == Get(item, "price", Num(0))
    IN  IF FloatRaises(qty) THEN total
        ELSE IF FloatRaises(price) THEN total
        ELSE Plus(total, Times(qty, price))

\* the loop over payload.items from total = 0.0
RECURSIVE CheckoutLoop(_, _)
CheckoutLoop(total, items) ==
    IF items = <<>> THEN total
    ELSE CheckoutLoop(CheckoutStep(total, Head(items)), Tail(items))

\* round(x, 2) of a non-negative amount in millionths: the nearest
\* hundredth; where the decimal value lies exactly halfway, its binary
\* float lies on one side or the other, so either neighbour can result.
\* round() of inf or nan with ndigits returns it unchanged.
Round2(total) ==
    IF ~total.fin THEN { NotFinite }
    ELSE LET lo == (total.v \div 10000) * 10000
             rest == total.v % 10000
         IN  IF rest < 5000 THEN { Finite(lo) }
             ELSE IF rest > 5000 THEN { Finite(lo + 10000) }
             ELSE { Finite(lo), Finite(lo + 10000) }

\* the dicts checkout can return for a payload
CheckoutResp(items) ==
    { [status |-> "ok", message |-> "Checkout initialized", total |-> t] :
          t \in Round2(CheckoutLoop(Finite(0), items)) }

Checkout(payloads) ==
    /\ Serving
    /\ \E items \in payloads :
           \E r \in CheckoutResp(items) :
               last' = [op |-> "checkout", items |-> items, resp |-> r]
    /\ UNCHANGED <<store, cond, pc, seedResult>>

----------------------------------------------------------------------------
(* GET /test *)

CollLimit == 10

\* os.getenv(...) of a setting: unset, empty, or a value
EnvValues == { <<>>, <<"">>, <<"mongodb://a">>, <<"mongodb://b">> }

\* what the handler reads besides the store condition: the two settings,
\* db.name (when db has that attribute) and the collection names
DiagInputs(colls) ==
    [ url : EnvValues, name : EnvValues,
      dbname : { <<>>, <<"shop">>, <<"test">> },
      colls : { [i \in 1..n |-> i] : n \in colls } ]

\* the collection names without the slice
FirstCollsAll(names) == names

\* `collections[:10]`
FirstColls(names) == SubSeq(names, 1, IF Len(names) < CollLimit THEN Len(names) ELSE CollLimit)

\* the response dict as first built
DiagInitial ==
    [ backend |-> "Running",
      database |-> "Not Available",
      database_url |-> <<>>,
      database_name |-> <<>>,
      connection_status |-> "Not Connected",
      collections |-> <<>> ]

\* the response dict after the try block
DiagAfterTry(r, c, in) ==
    IF c = "missing"
    THEN [r EXCEPT !.database = "Database module not found (run enable-database first)"]
    ELSE IF c = "broken"
    THEN [r EXCEPT !.database = "Error: import failed"]
    ELSE IF c = "none"
    THEN [r EXCEPT !.database = "Available but not initialized"]
    ELSE LET r1 == [r EXCEPT !.database = "Available",
                             !.database_url = <<"Configured">>,
                             !.database_name =
                                 IF in.dbname # <<>> THEN in.dbname ELSE <<"Connected">>,
                             !.connection_status = "Connected"]
         IN  IF QueriesWork(c)
             THEN [r1 EXCEPT !.collections = FirstColls(in.colls),
                             !.database = "Connected & Working"]
             ELSE [r1 EXCEPT !.database = "Connected but Error: query failed"]

\* the assignments after the try block without the one to database_name
DiagSettingsUrlOnly(r, in) ==
    [r EXCEPT !.database_url = IF Truthy(in.url) THEN <<"Set">> ELSE <<"Not Set">>]

\* the two assignments after the try block
DiagSettings(r, in) ==
    [r EXCEPT !.database_url = IF Truthy(in.url) THEN <<"Set">> ELSE <<"Not Set">>,
              !.database_name = IF Truthy(in.name) THEN <<"Set">> ELSE <<"Not Set">>]

\* the response of test_database
TestDatabaseResp(c, in) == Ok(DiagSettings(DiagAfterTry(DiagInitial, c, in), in))

TestDatabase(inputs) ==
    /\ Serving
    /\ \E in \in inputs :
           last' = [op |-> "test", in |-> in, resp |-> TestDatabaseResp(cond, in)]
    /\ UNCHANGED <<store, cond, pc, seedResult>>

----------------------------------------------------------------------------
(* Specifications *)

\* one process, restarted at will, with the store administered out of band
Next ==
    \/ Start(MainProc)
    \/ StartInsertFails(MainProc)
    \/ Stop(MainProc)
    \/ Respond
    \/ ExternalInsert
    \/ ExternalDelete
    \/ SetCond
    \/ ReadRoot
    \/ ListProducts
    \/ GetProduct
    \/ Checkout(LineItemSeqs(1))
    \/ TestDatabase(DiagInputs({0}))

Spec == Init /\ [][Next]_vars

\* the checkout handler over whole payloads
NextCheckout ==
    \/ Start(MainProc)
    \/ Stop(MainProc)
    \/ Respond
    \/ Checkout(LineItemSeqs(MaxItems))

SpecCheckout == Init /\ [][NextCheckout]_vars

\* the diagnostics handler over its inputs
NextDiag ==
    \/ Start(MainProc)
    \/ Stop(MainProc)
    \/ Respond
    \/ SetCond
    \/ TestDatabase(DiagInputs(0..MaxColls))

SpecDiag == Init /\ [][NextDiag]_vars

\* several processes against one store, their seed steps interleaving
NextConc ==
    \/ \E p \in Procs : ProcStart(p)
    \/ \E p \in Procs : SeedCount(p)
    \/ \E p \in Procs : SeedInsert(p)
    \/ \E p \in Procs : Stop(p)
    \/ Respond
    \/ ExternalDelete
    \/ SetCond
    \/ ReadRoot
    \/ ListProducts
    \/ GetProduct
    \/ Checkout(LineItemSeqs(0))
    \/ TestDatabase(DiagInputs({0}))

SpecConc == Init /\ [][NextConc]_vars

----------------------------------------------------------------------------
(* Properties *)

SampleSlugs == {"sea-moss-gel", "sea-moss-capsules", "sea-moss-powder"}

\* C1: a process start on an available store inserts the sample set if and
\* only if the collection is empty at that moment: from an empty collection
\* the store then holds exactly 3 products, with the three sample slugs;
\* from a non-empty one the store is as it was.
C1_SeedIffEmpty ==
    (last.op = "seed" /\ QueriesWork(cond)) =>
        IF last.before = <<>>
        THEN /\ Len(store) = 3
             /\ { store[i].slug : i \in 1..Len(store) } = SampleSlugs
        ELSE store = last.before

\* C1 witness: a start that found the collection empty and left the three
\* samples in it
C1_Witness ==
    /\ last.op = "seed"
    /\ QueriesWork(cond)
    /\ last.before = <<>>
    /\ Len(store) = 3

\* the catalog a request is answered from: the collection when the route
\* obtains a handle, the one-item fallback list otherwise
EffectiveCatalog ==
    IF HandleObtained(cond) THEN store ELSE <<FallbackProduct>>

\* the slugs of a sequence of documents or products, in order
SlugsOf(ps) == [i \in 1..Len(ps) |-> Get(ps[i], "slug", "")]

\* C2: list_products returns all products of the effective catalog when no
\* category filter is given (the parameter absent or empty) and, when one
\* is given, exactly the products whose category equals it.
C2_ListExact ==
    last.op = "list" =>
        LET wanted ==
                IF last.category \in { <<>>, <<"">> } THEN EffectiveCatalog
                ELSE SelectSeq(EffectiveCatalog,
                               LAMBDA p : Get(p, "category", "") = last.category[1])
        IN  /\ last.resp.status = 200
            /\ SlugsOf(last.resp.body) = SlugsOf(wanted)

\* C3: get_product returns the product carrying the requested slug when
\* the effective catalog holds one, and the 404 "Product not found"
\* otherwise; without a store, "sea-moss-gel" is the fallback product.
C3_LookupExact ==
    last.op = "get" =>
        /\ IF \E i \in 1..Len(EffectiveCatalog) :
                  Get(EffectiveCatalog[i], "slug", "") = last.slug
           THEN /\ last.resp.status = 200
                /\ last.resp.body.slug = last.slug
           ELSE last.resp = [status |-> 404, detail |-> "Product not found"]
        /\ (~HandleObtained(cond) /\ last.slug = "sea-moss-gel") =>
               /\ last.resp.status = 200
               /\ last.resp.body.price = 29990
               /\ last.resp.body.rating = 4900
               /\ last.resp.body.reviews = 312

\* what an item adds to the total according to the contract: qty * price
\* with qty 1 and price 0 when absent, and 0 when either cannot be read
Contribution(item) ==
    LET q == IF "qty" \in DOMAIN item THEN item.qty ELSE Num(1000)
        v == IF "price" \in DOMAIN item THEN item.price ELSE Num(0)
    IN  IF q.kind = "num" /\ v.kind = "num" THEN q.v * v.v ELSE 0

RECURSIVE SumOfContributions(_)
SumOfContributions(items) ==
    IF items = <<>> THEN 0
    ELSE Contribution(Head(items)) + SumOfContributions(Tail(items))

\* an item that float() reads in full and that carries inf or nan
CountsNonFinite(item) ==
    LET q == IF "qty" \in DOMAIN item THEN item.qty ELSE Num(1000)
        v == IF "price" \in DOMAIN item THEN item.price ELSE Num(0)
    IN  /\ q.kind # "bad" /\ v.kind # "bad"
        /\ (q.kind = "nonfinite" \/ v.kind = "nonfinite")

FinitePayload(items) == \A i \in 1..Len(items) : ~CountsNonFinite(items[i])

\* the sum the contract names, as a float
ContractSum(items) ==
    IF FinitePayload(items) THEN Finite(SumOfContributions(items)) ELSE NotFinite

C5_NoUnhandledError ==
    /\ last.op = "list" => last.resp.status = 200
    /\ last.op = "get" => last.resp.status \in {200, 404}

DiagFields ==
    {"backend", "database", "database_url", "database_name",
     "connection_status", "collections"}

\* C6: test_database always returns the report with its six fields, in
\* every store condition, and collections holds at most 10 names.
C6_DiagAlwaysReports ==
    last.op = "test" =>
        /\ last.resp.status = 200
        /\ DOMAIN last.resp.body = DiagFields
        /\ Len(last.resp.body.collections) <= 10
        /\ \A i \in 1..Len(last.resp.body.collections) :
               last.resp.body.collections[i] = last.in.colls[i]

\* C6 witness: a working store exposing more than 10 collections
C6_Witness ==
    /\ last.op = "test"
    /\ QueriesWork(cond)
    /\ Len(last.in.colls) > 10
    /\ Len(last.resp.body.collections) = 10

\* C7: database_url and database_name each hold one of two markers, chosen
\* by whether the setting is non-empty and by nothing else (not the
\* setting's value, not the store condition, not the database's name).
C7_SettingsOnlyAsMarkers ==
    last.op = "test" =>
        /\ last.resp.body.database_url =
               IF last.in.url \in { <<>>, <<"">> } THEN <<"Not Set">> ELSE <<"Set">>
        /\ last.resp.body.database_name =
               IF last.in.name \in { <<>>, <<"">> } THEN <<"Not Set">> ELSE <<"Set">>

\* C7 witness: a connected database with a name, with DATABASE_NAME unset
\* and DATABASE_URL set
C7_Witness ==
    /\ last.op = "test"
    /\ cond = "ok"
    /\ last.in.dbname = <<"shop">>
    /\ last.in.name = <<>>
    /\ last.in.url = <<"mongodb://a">>

\* C8: no two product records in the store have the same slug.
C8_SlugUnique ==
    \A i, j \in 1..Len(store) :
        (i # j /\ "slug" \in DOMAIN store[i] /\ "slug" \in DOMAIN store[j])
            => store[i].slug # store[j].slug

SeedFailed(p) ==
    seedResult[p] \in {"import_failed", "no_db", "query_failed", "insert_failed"}

\* C9: once the seed routine of the serving process has ended on a missing
\* store or a failed step, listing and lookup requests are answered from
\* the fallback product.
C9_FallbackAfterFailedSeed ==
    (last.op \in {"list", "get"} /\ SeedFailed(MainProc)) =>
        /\ last.branch = "fallback"
        /\ last.resp.status # 500

HandlerOps == {"root", "list", "get", "checkout", "test"}

\* C10: a step that serves a request leaves the product collection as it
\* was, whatever the response.
C10_HandlersReadOnly ==
    [][(last' # last /\ last'.op \in HandlerOps) => store' = store]_vars

\* C10 witness: a lookup that failed with 404 on a non-empty collection
C10_Witness ==
    /\ last.op = "get"
    /\ last.resp.status = 404
    /\ store # <<>>
    /\ HandleObtained(cond)

====
